---- MODULE Spec2Model ----
(***************************************************************************)
(* Caching / rate-limiting subsystem of the task manager API:               *)
(*   app/core/cache.py        CacheManager (fail-soft store over Redis)     *)
(*   app/core/decorators.py   _serialize_value, _generate_cache_key,        *)
(*                            cache_result (cache-aside memoizer)           *)
(*   app/core/rate_limiter.py RateLimiter (fixed-window counter)            *)
(*   app/routers/tasks.py     the handlers that read and invalidate         *)
(*                                                                         *)
(* Every "await" on the store is one atomic step; coroutines interleave     *)
(* only at those points (single-threaded cooperative scheduling).           *)
(***************************************************************************)
EXTENDS Integers, Sequences, FiniteSets, TLC

(***************************************************************************)
(* Bounds of the model                                                      *)
(***************************************************************************)
NumProcs == 2          \* coroutines in flight at once
MaxCalls == 4          \* is_allowed calls / requests started in one run
StrictMax == 2         \* max_requests of rate_limiter_strict (10 in the source, scaled)
ModerateMax == 3       \* max_requests of rate_limiter_moderate (60 in the source, scaled)
WindowSeconds == 2     \* window_seconds of both limiters (60 in the source, scaled)
MemoTtl == 2           \* ttl of cache_result on get_tasks_by_owner_cached (300, scaled)

\* the clock runs through the first window and into the second
MaxTime == WindowSeconds + 1

Procs == 1..NumProcs

(***************************************************************************)
(* Python values.  Every value is a record of one shape:                    *)
(*   t      the type ("none", "int", "str", "bool", "enum", "datetime",     *)
(*          "session", "object", "list", "tuple", "dict", "entry",          *)
(*          "keyeddict")                                                    *)
(*   i      the integer payload (int, bool as 0/1, object identity)         *)
(*   s      the string payload (str, enum value, str() of a datetime,       *)
(*          key of a dict entry)                                            *)
(*   items  the elements (list, tuple), the entries (dict), the value of    *)
(*          an entry                                                        *)
(***************************************************************************)
PyVal(t, i, s, items) == [t |-> t, i |-> i, s |-> s, items |-> items]
PyNone == PyVal("none", 0, "", <<>>)
PyInt(n) == PyVal("int", n, "", <<>>)
PyStr(x) == PyVal("str", 0, x, <<>>)
PyBool(b) == PyVal("bool", IF b THEN 1 ELSE 0, "", <<>>)
PyEnum(x) == PyVal("enum", 0, x, <<>>)
PyDateTime(x) == PyVal("datetime", 0, x, <<>>)
PySession(n) == PyVal("session", n, "", <<>>)
PyObject(n) == PyVal("object", n, "", <<>>)
PyList(xs) == PyVal("list", 0, "", xs)
PyTuple(xs) == PyVal("tuple", 0, "", xs)
PyEntry(k, v) == PyVal("entry", 0, k, <<v>>)
PyDict(es) == PyVal("dict", 0, "", es)
\* a dict one of whose keys is a tuple: json.dumps raises TypeError on it
PyTupleKeyDict == PyVal("keyeddict", 0, "", <<>>)

\* str(n) for a natural number
Digit(d) ==
    CASE d = 0 -> "0" [] d = 1 -> "1" [] d = 2 -> "2" [] d = 3 -> "3" [] d = 4 -> "4"
      [] d = 5 -> "5" [] d = 6 -> "6" [] d = 7 -> "7" [] d = 8 -> "8" [] d = 9 -> "9"

RECURSIVE IntStr(_)
IntStr(n) == IF n < 10 THEN Digit(n) ELSE IntStr(n \div 10) \o Digit(n % 10)

\* sep.join(parts)
RECURSIVE Join(_, _)
Join(parts, sep) ==
    IF parts = <<>> THEN ""
    ELSE IF Len(parts) = 1 THEN parts[1]
    ELSE parts[1] \o sep \o Join(Tail(parts), sep)

\* str(value) of the fallback branch and of json's default=str
PyStrOf(v) ==
    CASE v.t = "none" -> "None"
      [] v.t = "int" -> IntStr(v.i)
      [] v.t = "bool" -> IF v.i = 1 THEN "True" ELSE "False"
      [] v.t \in {"str", "datetime"} -> v.s
      [] v.t = "enum" -> v.s
      [] v.t = "session" -> "<AsyncSession object at " \o IntStr(v.i) \o ">"
      [] OTHER -> "<object at " \o IntStr(v.i) \o ">"

(***************************************************************************)
(* Key generator (decorators.py)                                            *)
(***************************************************************************)
\* every name used as a named argument or dict key, in lexicographic order:
\* sorted(names) is the subsequence of NameOrder that the names select
NameOrder ==
    << "a", "b", "created_at", "db", "description", "due_date", "id", "limit", "owner_id",
       "priority", "search", "skip", "status", "title", "updated_at", "user_id" >>

IsIn(x, seq) == \E j \in 1..Len(seq) : seq[j] = x

AsPassed(names) == names

\* sorted(kwargs.keys())
Sorted(names) == SelectSeq(NameOrder, LAMBDA n : IsIn(n, names))

\* json.dumps of a str (the test strings need no escapes)
Quote(x) == "\"" \o x \o "\""

\* 'Session' in value.__class__.__name__
IsSessionClass(v) == v.t = "session"

RECURSIVE serialize_value(_)
serialize_value(value) ==
    IF value.t = "none" THEN "None"
    ELSE IF IsSessionClass(value) THEN ""
    ELSE IF value.t = "enum" THEN value.s
    ELSE IF value.t \in {"str", "int", "bool"} THEN PyStrOf(value)
    ELSE IF value.t \in {"list", "tuple"} THEN
        "[" \o Join([j \in 1..Len(value.items) |->
                        Quote(serialize_value(value.items[j]))], ", ") \o "]"
    ELSE IF value.t = "dict" THEN
        LET ks == Sorted([j \in 1..Len(value.items) |-> value.items[j].s])
            At(k) == (CHOOSE j \in 1..Len(value.items) : value.items[j].s = k)
        IN "{" \o Join([j \in 1..Len(ks) |->
                          Quote(ks[j]) \o ": "
                            \o Quote(serialize_value(value.items[At(ks[j])].items[1]))],
                       ", ") \o "}"
    ELSE PyStrOf(value)

\* hasattr(args[0], '__class__') and hasattr(args[0].__class__, '__mro__'):
\* true of every Python object, scalars and None included
HasClassWithMro(v) == TRUE

\* hashlib.md5(data).hexdigest(), taken as injective on its input string
Md5Hex(data) == "md5(" \o data \o ")"

NonEmpty(seq) == SelectSeq(seq, LAMBDA x : x # "")

\* kwargs is the sequence of [name, value] in the order the caller passed them
KwValue(kwargs, name) ==
    kwargs[CHOOSE j \in 1..Len(kwargs) : kwargs[j].name = name].value

cache_key_data(func_name, key_prefix, args, kwargs) ==
    LET start_idx == IF args # <<>> /\ HasClassWithMro(args[1]) THEN 1 ELSE 0
        rest == SubSeq(args, start_idx + 1, Len(args))
        pos == NonEmpty([j \in 1..Len(rest) |-> serialize_value(rest[j])])
        names == Sorted([j \in 1..Len(kwargs) |-> kwargs[j].name])
        kw == [j \in 1..Len(names) |->
                 LET ser == serialize_value(KwValue(kwargs, names[j]))
                 IN IF ser # "" THEN names[j] \o "=" \o ser ELSE ""]
    IN Join(<<key_prefix, func_name>> \o pos \o NonEmpty(kw), ":")

generate_cache_key(func_name, key_prefix, args, kwargs) ==
    Md5Hex(cache_key_data(func_name, key_prefix, args, kwargs))

(***************************************************************************)
(* Store keys.  A key is the sequence of its colon-separated segments       *)
(* ("task:7:1" is <<"task", "7", "1">>); a hex digest is one segment.       *)
(* A pattern is a sequence of segments too, "*" standing for a "*" that     *)
(* fills the text between two colons, so it matches one or more segments    *)
(* (Redis KEYS glob: "*" matches any characters, colons included).          *)
(***************************************************************************)
RECURSIVE GlobMatch(_, _)
GlobMatch(pattern, key) ==
    IF pattern = <<>> THEN key = <<>>
    ELSE IF key = <<>> THEN FALSE
    ELSE IF Head(pattern) = "*" THEN
        GlobMatch(Tail(pattern), Tail(key)) \/ GlobMatch(pattern, Tail(key))
    ELSE Head(pattern) = Head(key) /\ GlobMatch(Tail(pattern), Tail(key))

(***************************************************************************)
(* json.dumps(value, default=str) and json.loads                            *)
(* A JSON document is a record of the same shape, with the JSON types       *)
(* "null", "number", "string", "true", "false", "array", "object", "member" *)
(***************************************************************************)
\* json.dumps raises TypeError (keys must be str, int, float, bool or None)
RECURSIVE DumpsRaises(_)
DumpsRaises(value) ==
    \/ value.t = "keyeddict"
    \/ /\ value.t \in {"list", "tuple", "dict", "entry"}
       /\ \E j \in 1..Len(value.items) : DumpsRaises(value.items[j])

RECURSIVE json_dumps(_)
json_dumps(value) ==
    CASE value.t = "none" -> PyVal("null", 0, "", <<>>)
      [] value.t = "int" -> PyVal("number", value.i, "", <<>>)
      [] value.t = "bool" -> PyVal(IF value.i = 1 THEN "true" ELSE "false", 0, "", <<>>)
      [] value.t = "str" -> PyVal("string", 0, value.s, <<>>)
      [] value.t = "enum" -> PyVal("string", 0, value.s, <<>>)
      [] value.t \in {"list", "tuple"} ->
           PyVal("array", 0, "", [j \in 1..Len(value.items) |-> json_dumps(value.items[j])])
      [] value.t = "dict" ->
           PyVal("object", 0, "", [j \in 1..Len(value.items) |-> json_dumps(value.items[j])])
      [] value.t = "entry" -> PyVal("member", 0, value.s, <<json_dumps(value.items[1])>>)
      [] OTHER -> PyVal("string", 0, PyStrOf(value), <<>>)

RECURSIVE json_loads(_)
json_loads(doc) ==
    CASE doc.t = "null" -> PyNone
      [] doc.t = "number" -> PyInt(doc.i)
      [] doc.t = "true" -> PyBool(TRUE)
      [] doc.t = "false" -> PyBool(FALSE)
      [] doc.t = "string" -> PyStr(doc.s)
      [] doc.t = "array" ->
           PyList([j \in 1..Len(doc.items) |-> json_loads(doc.items[j])])
      [] doc.t = "object" ->
           PyDict([j \in 1..Len(doc.items) |-> json_loads(doc.items[j])])
      [] doc.t = "member" -> PyEntry(doc.s, json_loads(doc.items[1]))

(***************************************************************************)
(* State                                                                    *)
(***************************************************************************)
VARIABLES
    redis_client,   \* CacheManager.redis_client: "client" or "None"
    data,           \* the Redis keyspace: key -> [doc, exp] (exp = expiry time)
    now,            \* int(time.time())
    pc,             \* where each coroutine is suspended
    fr,             \* its local variables
    last,           \* the call that completed last, and what it returned
    stat,           \* per rate-limit key: what the calls on it returned so far
    started,        \* calls started so far
    db,             \* the tasks table: id -> row
    kg              \* two calls handed to the key generator, and their keys

vars == <<redis_client, data, now, pc, fr, last, stat, started, db, kg>>

(***************************************************************************)
(* CacheManager (cache.py).  ok = the backend answers this command; ~ok =   *)
(* the command raises (connection lost, timeout).                           *)
(***************************************************************************)
Without(key) == [k \in DOMAIN data \ {key} |-> data[k]]

\* CacheManager.get with the disabled branch written as in set and delete (return False)
CM_get_false_when_disabled(key, ok) ==
    IF redis_client = "None" THEN PyBool(FALSE)
    ELSE IF ~ok THEN PyNone
    ELSE IF key \in DOMAIN data THEN json_loads(data[key].doc)
    ELSE PyNone

\* CacheManager.get: absent, failure and disabled mode all give None
CM_get(key, ok) ==
    IF redis_client = "None" THEN PyNone
    ELSE IF ~ok THEN PyNone
    ELSE IF key \in DOMAIN data THEN json_loads(data[key].doc)
    ELSE PyNone

\* CacheManager.set: the value it returns
CM_set(key, value, ok) ==
    IF redis_client = "None" THEN FALSE
    ELSE IF DumpsRaises(value) \/ ~ok THEN FALSE
    ELSE TRUE

\* CacheManager.set: the keyspace after it (setex)
CM_set_data(key, value, ttl, ok) ==
    IF CM_set(key, value, ok)
    THEN (key :> [doc |-> json_dumps(value), exp |-> now + ttl]) @@ data
    ELSE data

\* CacheManager.delete: the value it returns
CM_delete(key, ok) ==
    IF redis_client = "None" THEN FALSE
    ELSE IF ~ok THEN FALSE
    ELSE TRUE

CM_delete_data(key, ok) ==
    IF redis_client # "None" /\ ok THEN Without(key) ELSE data

\* CacheManager.clear_pattern: keys(pattern), then delete(*keys)
Matching(pattern) == {k \in DOMAIN data : GlobMatch(pattern, k)}

CM_clear_pattern(pattern, ok) ==
    IF redis_client = "None" THEN 0
    ELSE IF ~ok THEN 0
    ELSE Cardinality(Matching(pattern))

CM_clear_pattern_data_flush(pattern, ok) ==
    IF redis_client # "None" /\ ok /\ Matching(pattern) # {} THEN <<>> ELSE data

CM_clear_pattern_data(pattern, ok) ==
    IF redis_client # "None" /\ ok
    THEN [k \in DOMAIN data \ Matching(pattern) |-> data[k]]
    ELSE data

\* the backend drops a key when its TTL has run out
Unexpired(t) == [k \in {x \in DOMAIN data : data[x].exp > t} |-> data[k]]

(***************************************************************************)
(* RateLimiter (rate_limiter.py)                                            *)
(***************************************************************************)
Limiters == {"strict", "moderate"}
max_requests(lim) == IF lim = "strict" THEN StrictMax ELSE ModerateMax
window_seconds(lim) == WindowSeconds

\* request.client: a host, or no client at all
Requests == {"10.0.0.1", "noclient"}

identifier_of_host(request) == request

\* identifier = request.client.host if request.client else "unknown"
identifier_of(request) == IF request # "noclient" THEN request ELSE "unknown"
Identifiers == {identifier_of(r) : r \in Requests}

window_start_at(t, lim) == (t \div window_seconds(lim)) * window_seconds(lim)

rate_key_without_identifier(identifier, ws) == <<"rate_limit", "unknown", IntStr(ws)>>

\* key = f"rate_limit:{identifier}:{window_start}"
rate_key(identifier, ws) == <<"rate_limit", identifier, IntStr(ws)>>
WindowStarts == {window_start_at(t, "strict") : t \in 0..MaxTime}
RateKeys == {rate_key(i, w) : i \in Identifiers, w \in WindowStarts}

\* count_data if isinstance(count_data, int) else 0   (bool is an int in Python)
current_count_of(count_data) == IF count_data.t \in {"int", "bool"} THEN count_data.i ELSE 0

LimitReachedStrictly(current_count, lim) == current_count > max_requests(lim)

LimitReachedEarly(current_count, lim) == current_count + 1 >= max_requests(lim)

\* if current_count >= self.max_requests
LimitReached(current_count, lim) == current_count >= max_requests(lim)

\* a memoized call that ran the wrapped operation and stored its result, as the
\* next call finds it: the result, and when the stored copy expires
NoPrev == [ok |-> FALSE, val |-> PyNone, exp |-> 0]

\* the locals of a call in flight
\*   overlap   another call was in flight at some point of this one
\*   after     a call on the same rate-limit key had been denied before this
\*             one started
\*   healthy   every store command of this call was answered so far
\*   failing   no store command of this call was answered so far
NewCountByTwo(current_count) == current_count + 2

NewCountUnchanged(current_count) == current_count

\* new_count = current_count + 1
NewCount(current_count) == current_count + 1

IdleFrame ==
    [op |-> "", lim |-> "", request |-> "", identifier |-> "", key |-> <<>>, ws |-> 0,
     count |-> 0,
     overlap |-> FALSE, healthy |-> TRUE, failing |-> TRUE, after |-> FALSE,
     func |-> "", user |-> 0, id |-> 0, arg |-> PyNone, val |-> PyNone,
     tget |-> 0, prev |-> NoPrev]

\* a completed call
\*   op        "guard", "memo", a store operation or a handler of the tasks router
\*   ok        the boolean or the count a store operation returned, as a count
\*   val       the value returned (memoized call, get)
\*   arg       the value handed in (set), the wrapped operation's result (memo)
\*   executed  times the wrapped operation ran
\*   existed   the key was in the keyspace when the call started (delete)
\*   tget      when the call read the clock (guard), when it read the store
\*   before    the keyspace when the call started (clear_pattern)
\*   conn      "failed" since a connect() failed, "again" since a later one
\*             succeeded (store operations)
NoRet ==
    [op |-> "", lim |-> "", request |-> "", key |-> <<>>, allowed |-> FALSE, raised |-> "",
     overlap |-> FALSE, healthy |-> FALSE, failing |-> FALSE, wrote |-> FALSE,
     after |-> FALSE,
     func |-> "", user |-> 0, val |-> PyNone, arg |-> PyNone, executed |-> 0,
     ok |-> 0, existed |-> FALSE, tget |-> 0, tset |-> 0, prev |-> NoPrev,
     before |-> <<>>, conn |-> ""]

\* what the calls on one rate-limit key returned so far
\*   seq       they came one after another, through one limiter, every store
\*             command answered
\*   clean     seq, and each of them completed inside the key's window
\*   strict    how many of the allowed ones came through rate_limiter_strict
\*   denied    when the first denied one read the clock (NoTime: none was denied)
NoTime == 0 - 1
NoStat ==
    [calls |-> 0, allowed |-> 0, strict |-> 0, seq |-> TRUE, clean |-> TRUE, lim |-> "",
     denied |-> NoTime]

Busy(p) == pc[p] # "idle"
AllIdleNow == \A p \in Procs : pc[p] = "idle"

\* a call that starts while others are in flight overlaps each of them
MarkOverlap(p, frame) ==
    [q \in Procs |->
        IF q = p THEN [frame EXCEPT !.overlap = \E r \in Procs \ {p} : Busy(r)]
        ELSE IF Busy(q) THEN [fr[q] EXCEPT !.overlap = TRUE]
        ELSE fr[q]]

\* a store command of this call was answered (h) or not
Seen(frame, h) ==
    [frame EXCEPT !.healthy = frame.healthy /\ h, !.failing = frame.failing /\ ~h]

Answered(ok) == redis_client # "None" /\ ok

\* the record of a completed is_allowed / guard call
RateRet(frame, allowed, wrote) ==
    [NoRet EXCEPT !.op = "guard", !.lim = frame.lim, !.request = frame.request,
                  !.key = frame.key, !.tget = frame.tget, !.after = frame.after,
                  !.allowed = allowed, !.raised = IF allowed THEN "" ELSE "429",
                  !.overlap = frame.overlap, !.healthy = frame.healthy,
                  !.failing = frame.failing, !.wrote = wrote]

\* a key's calls stay "clean" while they came one after another, through one
\* limiter, inside the key's window, every store command answered
StatAfter(frame, allowed) ==
    LET old == stat[frame.key]
        seq == /\ old.seq
               /\ ~frame.overlap
               /\ frame.healthy
               /\ old.lim \in {"", frame.lim}
    IN [stat EXCEPT ![frame.key] =
          [calls |-> old.calls + 1,
           allowed |-> old.allowed + (IF allowed THEN 1 ELSE 0),
           strict |-> old.strict + (IF allowed /\ frame.lim = "strict" THEN 1 ELSE 0),
           seq |-> seq,
           clean |-> /\ old.clean
                     /\ seq
                     /\ window_start_at(now, frame.lim) = frame.ws,
           lim |-> frame.lim,
           denied |-> IF ~allowed /\ old.denied = NoTime THEN frame.tget ELSE old.denied]]

\* RateLimiter.__call__ up to the first await of is_allowed
\*   calls   how many requests the run may start
\*   timed   the call keeps current_time (only the window start is used later)
rl_begin(p, lims, requests, calls, timed) ==
    /\ pc[p] = "idle"
    /\ started < calls
    /\ \E lim \in lims, request \in requests :
         LET identifier == identifier_of(request)
             current_time == now
             window_start == window_start_at(current_time, lim)
             key == rate_key(identifier, window_start)
         IN fr' = MarkOverlap(p, [IdleFrame EXCEPT !.op = "guard", !.lim = lim,
                                     !.request = request,
                                     !.identifier = identifier, !.key = key,
                                     !.ws = window_start,
                                     !.after = stat[key].denied # NoTime,
                                     !.tget = IF timed THEN current_time ELSE 0])
    /\ pc' = [pc EXCEPT ![p] = "rl_get"]
    /\ started' = started + 1
    /\ UNCHANGED <<redis_client, data, now, stat, last, db, kg>>

rl_call(p, lims, requests) == rl_begin(p, lims, requests, MaxCalls, FALSE)

\* count_data = await cache_manager.get(key), and the comparison that follows
rl_get(p, oks) ==
    /\ pc[p] = "rl_get"
    /\ \E ok \in oks :
         LET count_data == CM_get(fr[p].key, ok)
             current_count == current_count_of(count_data)
             frame == Seen(fr[p], Answered(ok))
         IN IF LimitReached(current_count, frame.lim)
            THEN /\ pc' = [pc EXCEPT ![p] = "idle"]
                 /\ fr' = [fr EXCEPT ![p] = IdleFrame]
                 /\ last' = RateRet(frame, FALSE, FALSE)
                 /\ stat' = StatAfter(frame, FALSE)
            ELSE /\ pc' = [pc EXCEPT ![p] = "rl_set"]
                 /\ fr' = [fr EXCEPT ![p] = [frame EXCEPT !.count = current_count]]
                 /\ UNCHANGED <<last, stat>>
    /\ UNCHANGED <<redis_client, data, now, started, db, kg>>

\* await cache_manager.set(key, new_count, self.window_seconds); return True
rl_set(p, oks) ==
    /\ pc[p] = "rl_set"
    /\ \E ok \in oks :
         LET new_count == NewCount(fr[p].count)
             frame == Seen(fr[p], Answered(ok))
         IN /\ data' = CM_set_data(frame.key, PyInt(new_count), window_seconds(frame.lim), ok)
            /\ last' = RateRet(frame, TRUE, TRUE)
            /\ stat' = StatAfter(frame, TRUE)
    /\ pc' = [pc EXCEPT ![p] = "idle"]
    /\ fr' = [fr EXCEPT ![p] = IdleFrame]
    /\ UNCHANGED <<redis_client, now, started, db, kg>>

\* a second passes; keys whose TTL has run out are gone
Tick ==
    /\ now < MaxTime
    /\ now' = now + 1
    /\ data' = Unexpired(now + 1)
    /\ UNCHANGED <<redis_client, pc, fr, last, stat, started, db, kg>>

(***************************************************************************)
(* The tasks table (models/database.py) and the query of                    *)
(* CRUDTask.get_tasks_by_owner_cached (crud/task.py)                        *)
(***************************************************************************)
MaxTasks == 2
TaskIds == 1..MaxTasks
Users == {1, 2}
Titles == {"a", "b"}
NoRow == [state |-> "free", owner |-> 0, title |-> ""]
NoRows == [i \in TaskIds |-> NoRow]
NoKg == [done |-> FALSE]

(***************************************************************************)
(* cache_result (decorators.py) and the operations it wraps                 *)
(***************************************************************************)
Funcs == {"get_user", "get_tasks_by_owner_cached"}
key_prefix_of(func) == IF func = "get_user" THEN "user" ELSE "tasks_by_owner"
ttl_of(func) == MemoTtl

Kw(n, v) == [name |-> n, value |-> v]

\* crud_task, the CRUDTask instance, and the AsyncSession of the request
crud_task == PyObject(1)
db_session(p) == PySession(p)

\* the filters read_tasks is asked with
Priorities == {PyNone, PyEnum("high")}

\* read_tasks: crud_task.get_tasks_by_owner_cached(db, owner_id=..., skip=..., ...)
read_tasks_kwargs(owner_id, priority) ==
    << Kw("owner_id", PyInt(owner_id)), Kw("skip", PyInt(0)), Kw("limit", PyInt(10)),
       Kw("priority", priority), Kw("status", PyNone), Kw("search", PyNone) >>

\* the key the wrapper derives; the digest is one segment of a key
wrapper_key(p, func, user, arg) ==
    IF func = "get_user"
    THEN <<generate_cache_key(func, key_prefix_of(func), <<>>,
                              <<Kw("user_id", PyInt(user))>>)>>
    ELSE <<generate_cache_key(func, key_prefix_of(func), <<crud_task, db_session(p)>>,
                              read_tasks_kwargs(user, arg))>>

\* values a wrapped operation may return / a caller may store
ResultValues ==
    { PyNone, PyInt(0), PyDateTime("2024-01-01 00:00:00"),
      PyTuple(<<PyInt(1)>>), PyTupleKeyDict }

IsHitIfTruthy(cached_result) ==
    /\ cached_result # PyNone
    /\ cached_result # PyInt(0)
    /\ cached_result # PyStr("")
    /\ cached_result # PyBool(FALSE)
    /\ ~(cached_result.t \in {"list", "dict"} /\ cached_result.items = <<>>)

\* if cached_result is not None
IsHitAlways(cached_result) == TRUE

\* if cached_result is not None
IsHit(cached_result) == cached_result # PyNone

\* a task as get_tasks_by_owner_cached converts it for caching
task_dict(id) ==
    PyDict(<< PyEntry("id", PyInt(id)),
              PyEntry("title", PyStr(db[id].title)),
              PyEntry("description", PyNone),
              PyEntry("priority", PyEnum("medium")),
              PyEntry("status", PyEnum("pending")),
              PyEntry("due_date", PyNone),
              PyEntry("created_at", PyDateTime("2024-01-01 00:00:00")),
              PyEntry("updated_at", PyDateTime("2024-01-01 00:00:00")),
              PyEntry("owner_id", PyInt(db[id].owner)) >>)

RECURSIVE Descending(_)
Descending(ids) ==
    IF ids = {} THEN <<>>
    ELSE LET m == CHOOSE x \in ids : \A y \in ids : y <= x
         IN <<m>> \o Descending(ids \ {m})

\* the body of get_tasks_by_owner_cached: count, then the page, newest first
tasks_by_owner(owner_id, priority) ==
    LET rows == {i \in TaskIds :
                    /\ db[i].state = "live"
                    /\ db[i].owner = owner_id
                    /\ (priority # PyNone => PyEnum("medium") = priority)}
        tasks == Descending(rows)
    IN PyTuple(<< PyList([j \in 1..Len(tasks) |-> task_dict(tasks[j])]),
                  PyInt(Cardinality(rows)) >>)

BoolInt(b) == IF b THEN 1 ELSE 0

MemoRet(frame, val, result, executed, success, tset) ==
    [NoRet EXCEPT !.op = "memo", !.func = frame.func, !.user = frame.user,
                  !.key = frame.key, !.val = val, !.arg = result,
                  !.executed = executed, !.ok = BoolInt(success),
                  !.overlap = frame.overlap, !.healthy = frame.healthy,
                  !.failing = frame.failing, !.tget = frame.tget, !.tset = tset,
                  !.prev = frame.prev]

\* what a call on `key` finds left by the call that completed just before it
PrevStored(key, ops) ==
    IF last.op \in ops /\ last.key = key /\ last.ok = 1
    THEN [ok |-> TRUE, val |-> last.arg, exp |-> last.tset + MemoTtl]
    ELSE NoPrev

\* wrapper: cache_key = _generate_cache_key(...), up to the await of get
mz_call(p, funcs, users) ==
    /\ pc[p] = "idle"
    /\ started < MaxCalls
    /\ \E func \in funcs, user \in users :
       \E arg \in (IF func = "get_user" THEN {PyNone} ELSE Priorities) :
         LET cache_key == wrapper_key(p, func, user, arg)
         IN fr' = MarkOverlap(p, [IdleFrame EXCEPT !.op = "memo", !.func = func,
                                     !.user = user, !.arg = arg, !.key = cache_key,
                                     !.prev = PrevStored(cache_key, {"memo"})])
    /\ pc' = [pc EXCEPT ![p] = "mz_get"]
    /\ started' = started + 1
    /\ UNCHANGED <<redis_client, data, now, last, stat, db, kg>>

\* cached_result = await cache_manager.get(cache_key); return it on a hit
mz_get(p, oks) ==
    /\ pc[p] = "mz_get"
    /\ \E ok \in oks :
         LET cached_result == CM_get(fr[p].key, ok)
             frame == [Seen(fr[p], Answered(ok)) EXCEPT !.tget = now]
         IN IF IsHit(cached_result)
            THEN /\ pc' = [pc EXCEPT ![p] = "idle"]
                 /\ fr' = [fr EXCEPT ![p] = IdleFrame]
                 /\ last' = MemoRet(frame, cached_result, PyNone, 0, FALSE, 0)
            ELSE /\ pc' = [pc EXCEPT ![p] = "mz_exec"]
                 /\ fr' = [fr EXCEPT ![p] = frame]
                 /\ UNCHANGED last
    /\ UNCHANGED <<redis_client, data, now, stat, started, db, kg>>

\* result = await func(*args, **kwargs)
mz_exec(p, results) ==
    /\ pc[p] = "mz_exec"
    /\ \E result \in (IF fr[p].func = "get_user" THEN results
                      ELSE {tasks_by_owner(fr[p].user, fr[p].arg)}) :
         fr' = [fr EXCEPT ![p].val = result]
    /\ pc' = [pc EXCEPT ![p] = "mz_set"]
    /\ UNCHANGED <<redis_client, data, now, last, stat, started, db, kg>>

\* success = await cache_manager.set(cache_key, result, ttl); return result
mz_set(p, oks) ==
    /\ pc[p] = "mz_set"
    /\ \E ok \in oks :
         LET result == fr[p].val
             frame == Seen(fr[p], Answered(ok))
             success == CM_set(frame.key, result, ok)
         IN /\ data' = CM_set_data(frame.key, result, ttl_of(frame.func), ok)
            /\ last' = MemoRet(frame, result, result, 1, success, now)
    /\ pc' = [pc EXCEPT ![p] = "idle"]
    /\ fr' = [fr EXCEPT ![p] = IdleFrame]
    /\ UNCHANGED <<redis_client, now, stat, started, db, kg>>

(***************************************************************************)
(* The store's operations called one at a time (as main.py, monitoring.py   *)
(* and the handlers call them)                                              *)
(***************************************************************************)
UnitKeys == { <<"health_check">>, <<"task", "1", "1">>, <<"tasks_by_owner", "x", "1", "y">> }
UnitValues == { PyStr("ok"), PyDateTime("2024-01-01 00:00:00"), PyTupleKeyDict }
UnitPatterns == { <<"tasks_by_owner", "*", "1", "*">>, <<"task", "*">> }

StoreRet(op, key, h) ==
    [NoRet EXCEPT !.op = op, !.key = key, !.healthy = h, !.failing = ~h,
                  !.conn = last.conn]

ConnAfter(ok) == IF ~ok THEN "failed" ELSE IF last.conn = "" THEN "" ELSE "again"

UnitStep ==
    /\ AllIdleNow
    /\ started < MaxCalls
    /\ started' = started + 1
    /\ UNCHANGED <<now, pc, fr, stat, db, kg>>

cm_connect_keeping_client(oks) ==
    /\ UnitStep
    /\ \E ok \in oks :
         /\ redis_client' = IF ok THEN "client" ELSE redis_client
         /\ last' = [StoreRet("connect", <<>>, ok) EXCEPT !.conn = ConnAfter(ok)]
    /\ UNCHANGED data

\* CacheManager.connect: from_url and ping inside try; on failure the client is None
cm_connect(oks) ==
    /\ UnitStep
    /\ \E ok \in oks :
         /\ redis_client' = IF ok THEN "client" ELSE "None"
         /\ last' = [StoreRet("connect", <<>>, ok) EXCEPT !.conn = ConnAfter(ok)]
    /\ UNCHANGED data

\* CacheManager.disconnect: close() is awaited outside any try
cm_disconnect(oks) ==
    /\ UnitStep
    /\ \E ok \in oks :
         last' = IF redis_client = "None" THEN StoreRet("disconnect", <<>>, FALSE)
                 ELSE IF ok THEN StoreRet("disconnect", <<>>, TRUE)
                 ELSE [StoreRet("disconnect", <<>>, FALSE) EXCEPT !.raised = "close"]
    /\ UNCHANGED <<redis_client, data>>

cm_get(keys, oks) ==
    /\ UnitStep
    /\ \E key \in keys, ok \in oks :
         last' = [StoreRet("get", key, Answered(ok)) EXCEPT
                     !.val = CM_get(key, ok), !.tget = now,
                     !.prev = PrevStored(key, {"set"})]
    /\ UNCHANGED <<redis_client, data>>

cm_set(keys, values, oks) ==
    /\ UnitStep
    /\ \E key \in keys, value \in values, ok \in oks :
         /\ data' = CM_set_data(key, value, MemoTtl, ok)
         /\ last' = [StoreRet("set", key, Answered(ok)) EXCEPT
                        !.arg = value, !.ok = BoolInt(CM_set(key, value, ok)),
                        !.tset = now]
    /\ UNCHANGED redis_client

cm_delete(keys, oks) ==
    /\ UnitStep
    /\ \E key \in keys, ok \in oks :
         /\ data' = CM_delete_data(key, ok)
         /\ last' = [StoreRet("delete", key, Answered(ok)) EXCEPT
                        !.ok = BoolInt(CM_delete(key, ok)),
                        !.existed = key \in DOMAIN data]
    /\ UNCHANGED redis_client

cm_clear_pattern(oks) ==
    /\ UnitStep
    /\ \E pattern \in UnitPatterns, ok \in oks :
         /\ data' = CM_clear_pattern_data(pattern, ok)
         /\ last' = [StoreRet("clear_pattern", pattern, Answered(ok)) EXCEPT
                        !.ok = CM_clear_pattern(pattern, ok), !.before = data,
                        !.tget = now]
    /\ UNCHANGED redis_client

(***************************************************************************)
(* The handlers of the tasks router that change tasks (routers/tasks.py)    *)
(***************************************************************************)
task_key(id, user) == <<"task", IntStr(id), IntStr(user)>>
owner_pattern(user) == <<"tasks_by_owner", "*", IntStr(user), "*">>
Mutations == {"create_task", "update_task", "delete_task"}

HandlerRet(frame, raised) ==
    [NoRet EXCEPT !.op = frame.op, !.user = frame.user, !.raised = raised,
                  !.overlap = frame.overlap, !.healthy = frame.healthy,
                  !.failing = frame.failing]

\* create_task: crud_task.create_with_owner(db, obj_in=task_in, owner_id=...)
ct_call(p) ==
    /\ pc[p] = "idle"
    /\ started < MaxCalls
    /\ \E i \in TaskIds, user \in Users, title \in Titles :
         /\ db[i].state = "free"
         /\ \A j \in TaskIds : j < i => db[j].state # "free"
         /\ db' = [db EXCEPT ![i] = [state |-> "live", owner |-> user, title |-> title]]
         /\ fr' = MarkOverlap(p, [IdleFrame EXCEPT !.op = "create_task", !.user = user,
                                     !.id = i])
    /\ pc' = [pc EXCEPT ![p] = "inv_clear"]
    /\ started' = started + 1
    /\ UNCHANGED <<redis_client, data, now, last, stat, kg>>

\* update_task / delete_task: task = await crud_task.get(db, id=id), 404, 403
mutate_call(p, op, next) ==
    /\ pc[p] = "idle"
    /\ started < MaxCalls
    /\ started' = started + 1
    /\ \E i \in TaskIds, user \in Users, title \in Titles :
         LET frame == [IdleFrame EXCEPT !.op = op, !.user = user, !.id = i,
                                        !.arg = PyStr(title)]
         IN IF db[i].state # "live"
            THEN /\ last' = HandlerRet(frame, "404")
                 /\ UNCHANGED <<pc, fr>>
            ELSE IF db[i].owner # user
            THEN /\ last' = HandlerRet(frame, "403")
                 /\ UNCHANGED <<pc, fr>>
            ELSE /\ fr' = MarkOverlap(p, frame)
                 /\ pc' = [pc EXCEPT ![p] = next]
                 /\ UNCHANGED last
    /\ UNCHANGED <<redis_client, data, now, stat, db, kg>>

ut_call(p) == mutate_call(p, "update_task", "ut_update")
dt_call(p) == mutate_call(p, "delete_task", "dt_remove")

\* task = await crud_task.update(db, db_obj=task, obj_in=task_in)
ut_update(p) ==
    /\ pc[p] = "ut_update"
    /\ db' = [db EXCEPT ![fr[p].id].title = fr[p].arg.s]
    /\ pc' = [pc EXCEPT ![p] = "inv_delete"]
    /\ UNCHANGED <<redis_client, data, now, fr, last, stat, started, kg>>

\* await crud_task.remove(db, id=id)
dt_remove(p) ==
    /\ pc[p] = "dt_remove"
    /\ db' = [db EXCEPT ![fr[p].id].state = "gone"]
    /\ pc' = [pc EXCEPT ![p] = "inv_delete"]
    /\ UNCHANGED <<redis_client, data, now, fr, last, stat, started, kg>>

\* await cache_manager.delete(f"task:{id}:{current_user.id}")
inv_delete(p, oks) ==
    /\ pc[p] = "inv_delete"
    /\ \E ok \in oks :
         /\ data' = CM_delete_data(task_key(fr[p].id, fr[p].user), ok)
         /\ fr' = [fr EXCEPT ![p] = Seen(fr[p], Answered(ok))]
    /\ pc' = [pc EXCEPT ![p] = "inv_clear"]
    /\ UNCHANGED <<redis_client, now, last, stat, started, db, kg>>

\* await cache_manager.clear_pattern(f"tasks_by_owner:*:{current_user.id}:*"); return
inv_clear(p, oks) ==
    /\ pc[p] = "inv_clear"
    /\ \E ok \in oks :
         /\ data' = CM_clear_pattern_data(owner_pattern(fr[p].user), ok)
         /\ last' = HandlerRet(Seen(fr[p], Answered(ok)), "")
    /\ pc' = [pc EXCEPT ![p] = "idle"]
    /\ fr' = [fr EXCEPT ![p] = IdleFrame]
    /\ UNCHANGED <<redis_client, now, stat, started, db, kg>>

(***************************************************************************)
(* read_task (routers/tasks.py): the cache-aside read of one task           *)
(***************************************************************************)
\* ttl=600 of read_task, twice the ttl=300 of get_tasks_by_owner_cached
TaskTtl == 2 * MemoTtl

\* the dict read_task builds from the row (the same fields as task_dicts)
read_task_dict(id) == task_dict(id)

\* bool(value), as "if cached_task:" takes it
Truthy(v) ==
    CASE v.t = "none" -> FALSE
      [] v.t \in {"int", "bool"} -> v.i # 0
      [] v.t \in {"str", "enum"} -> v.s # ""
      [] v.t \in {"list", "tuple", "dict"} -> v.items # <<>>
      [] OTHER -> TRUE

\* what read_task returned: the cached copy (executed = 0) or the row it read
ReadRet(frame, val, executed, raised) ==
    [HandlerRet(frame, raised) EXCEPT !.key = frame.key, !.val = val,
                                      !.executed = executed]

\* read_task up to the await of cache_manager.get(cache_key)
rt_call(p) ==
    /\ pc[p] = "idle"
    /\ started < MaxCalls
    /\ \E i \in TaskIds, user \in Users :
         fr' = MarkOverlap(p, [IdleFrame EXCEPT !.op = "read_task", !.user = user,
                                     !.id = i, !.key = task_key(i, user)])
    /\ pc' = [pc EXCEPT ![p] = "rt_get"]
    /\ started' = started + 1
    /\ UNCHANGED <<redis_client, data, now, last, stat, db, kg>>

\* cached_task = await cache_manager.get(cache_key); if cached_task: return it
rt_get(p, oks) ==
    /\ pc[p] = "rt_get"
    /\ \E ok \in oks :
         LET cached_task == CM_get(fr[p].key, ok)
             frame == Seen(fr[p], Answered(ok))
         IN IF Truthy(cached_task)
            THEN /\ pc' = [pc EXCEPT ![p] = "idle"]
                 /\ fr' = [fr EXCEPT ![p] = IdleFrame]
                 /\ last' = ReadRet(frame, cached_task, 0, "")
            ELSE /\ pc' = [pc EXCEPT ![p] = "rt_db"]
                 /\ fr' = [fr EXCEPT ![p] = frame]
                 /\ UNCHANGED last
    /\ UNCHANGED <<redis_client, data, now, stat, started, db, kg>>

\* task = await crud_task.get(db, id=id), 404, 403, task_dict
rt_db(p) ==
    /\ pc[p] = "rt_db"
    /\ LET i == fr[p].id
       IN IF db[i].state # "live"
          THEN /\ last' = ReadRet(fr[p], PyNone, 1, "404")
               /\ pc' = [pc EXCEPT ![p] = "idle"]
               /\ fr' = [fr EXCEPT ![p] = IdleFrame]
          ELSE IF db[i].owner # fr[p].user
          THEN /\ last' = ReadRet(fr[p], PyNone, 1, "403")
               /\ pc' = [pc EXCEPT ![p] = "idle"]
               /\ fr' = [fr EXCEPT ![p] = IdleFrame]
          ELSE /\ fr' = [fr EXCEPT ![p].val = read_task_dict(i)]
               /\ pc' = [pc EXCEPT ![p] = "rt_set"]
               /\ UNCHANGED last
    /\ UNCHANGED <<redis_client, data, now, stat, started, db, kg>>

\* await cache_manager.set(cache_key, task_dict, ttl=600); return task
rt_set(p, oks) ==
    /\ pc[p] = "rt_set"
    /\ \E ok \in oks :
         /\ data' = CM_set_data(fr[p].key, fr[p].val, TaskTtl, ok)
         /\ last' = ReadRet(Seen(fr[p], Answered(ok)), fr[p].val, 1, "")
    /\ pc' = [pc EXCEPT ![p] = "idle"]
    /\ fr' = [fr EXCEPT ![p] = IdleFrame]
    /\ UNCHANGED <<redis_client, now, stat, started, db, kg>>

(***************************************************************************)
(* The key generator applied to two calls of one operation                  *)
(***************************************************************************)
ArgValues ==
    { PyInt(1), PyInt(2), PyStr("1"), PyNone, PySession(1), PySession(2), crud_task,
      PyObject(2) }
ArgSeqs ==
    {<<>>} \cup {<<a>> : a \in ArgValues} \cup {<<a, b>> : a \in ArgValues, b \in ArgValues}
KwSeqs ==
    { <<>>, <<Kw("a", PyInt(1))>>, <<Kw("a", PyInt(2))>>,
      <<Kw("a", PyInt(1)), Kw("b", PyInt(2))>>, <<Kw("b", PyInt(2)), Kw("a", PyInt(1))>>,
      <<Kw("a", PyInt(1)), Kw("db", PySession(1))>>,
      <<Kw("db", PySession(2)), Kw("a", PyInt(1))>> }

kg_generate ==
    /\ ~kg.done
    /\ kg' = [kg EXCEPT !.done = TRUE,
                        !.key1 = generate_cache_key("get_user", "user", kg.args1, kg.kwargs1),
                        !.key2 = generate_cache_key("get_user", "user", kg.args2, kg.kwargs2)]
    /\ UNCHANGED <<redis_client, data, now, pc, fr, last, stat, started, db>>

\* after startup: connect() has succeeded (client) or failed (None: cache disabled)
InitBase(clients) ==
    /\ redis_client \in clients
    /\ data = <<>>
    /\ now = 0
    /\ pc = [p \in Procs |-> "idle"]
    /\ fr = [p \in Procs |-> IdleFrame]
    /\ last = NoRet
    /\ stat = [k \in RateKeys |-> NoStat]
    /\ started = 0
    /\ db = NoRows

InitWith(clients) == InitBase(clients) /\ kg = NoKg

Healthy == {TRUE}          \* every store command is answered
Flaky == BOOLEAN           \* a store command may raise

\* one request at a time, healthy store
InitRateSeq == InitWith({"client"})

NextRateSeq ==
    \/ rl_call(1, Limiters, Requests)
    \/ rl_get(1, Healthy)
    \/ rl_set(1, Healthy)
    \/ Tick

SpecRateSeq == InitRateSeq /\ [][NextRateSeq]_vars

\* guard calls of one client through the strict limiter and memoized calls of
\* get_user(user_id=1), one at a time, store disabled or failing at will
InitFaulty == InitWith({"client", "None"})

NextFaulty ==
    \/ rl_call(1, {"strict"}, {"10.0.0.1"})
    \/ rl_get(1, Flaky)
    \/ rl_set(1, Flaky)
    \/ mz_call(1, {"get_user"}, {1})
    \/ mz_get(1, Flaky)
    \/ mz_exec(1, {PyNone, PyInt(0)})
    \/ mz_set(1, Flaky)
    \/ Tick

SpecFaulty == InitFaulty /\ [][NextFaulty]_vars

\* the store's operations one at a time, the backend failing at will
InitStore == InitWith({"client", "None"})

NextStore ==
    \/ cm_connect(Flaky)
    \/ cm_disconnect(Flaky)
    \/ cm_get(UnitKeys, Flaky)
    \/ cm_set(UnitKeys, UnitValues, Flaky)
    \/ cm_delete(UnitKeys, Flaky)
    \/ cm_clear_pattern(Flaky)
    \/ Tick

SpecStore == InitStore /\ [][NextStore]_vars

\* the handlers of the tasks router, one request at a time, healthy store
InitApp == InitWith({"client"})

NextApp ==
    \/ mz_call(1, {"get_tasks_by_owner_cached"}, Users)
    \/ mz_get(1, Healthy)
    \/ mz_exec(1, {})
    \/ mz_set(1, Healthy)
    \/ ct_call(1)
    \/ ut_call(1)
    \/ dt_call(1)
    \/ ut_update(1)
    \/ dt_remove(1)
    \/ inv_delete(1, Healthy)
    \/ inv_clear(1, Healthy)
    \/ Tick

SpecApp == InitApp /\ [][NextApp]_vars

\* the key generator on every pair of calls
InitKey ==
    /\ InitBase({"client"})
    /\ kg \in [done : {FALSE}, key1 : {""}, key2 : {""},
               args1 : ArgSeqs, kwargs1 : KwSeqs, args2 : ArgSeqs, kwargs2 : KwSeqs]

NextKey == kg_generate

SpecKey == InitKey /\ [][NextKey]_vars

\* memoized calls of get_user and deletes of their keys, one at a time, healthy store
InitMemo == InitWith({"client"})

UserKeys == {wrapper_key(1, "get_user", u, PyNone) : u \in Users}

NextMemo ==
    \/ mz_call(1, {"get_user"}, Users)
    \/ mz_get(1, Healthy)
    \/ mz_exec(1, ResultValues)
    \/ mz_set(1, Healthy)
    \/ cm_delete(UserKeys, Healthy)
    \/ Tick

SpecMemo == InitMemo /\ [][NextMemo]_vars

\* requests in flight together through the strict limiter, healthy store
InitRateConc == InitWith({"client"})

NextRateConc ==
    \/ \E p \in Procs : rl_call(p, {"strict"}, Requests)
    \/ \E p \in Procs : rl_get(p, Healthy)
    \/ \E p \in Procs : rl_set(p, Healthy)
    \/ Tick

SpecRateConc == InitRateConc /\ [][NextRateConc]_vars

\* memoized calls of get_user(user_id=1) in flight together, the wrapped
\* operation returning a different value each time it may, healthy store
FreshResults == {PyInt(1), PyInt(2)}

InitMemoConc == InitWith({"client"})

NextMemoConc ==
    \/ \E p \in Procs : mz_call(p, {"get_user"}, {1})
    \/ \E p \in Procs : mz_get(p, Healthy)
    \/ \E p \in Procs : mz_exec(p, FreshResults)
    \/ \E p \in Procs : mz_set(p, Healthy)
    \/ Tick

SpecMemoConc == InitMemoConc /\ [][NextMemoConc]_vars

\* a burst of requests of one client through the strict limiter, one at a time,
\* healthy store: enough of them to exhaust two windows
BurstCalls == 2 * StrictMax + 2

InitBurst == InitWith({"client"})

NextBurst ==
    \/ rl_begin(1, {"strict"}, {"10.0.0.1"}, BurstCalls, TRUE)
    \/ rl_get(1, Healthy)
    \/ rl_set(1, Healthy)
    \/ Tick

SpecBurst == InitBurst /\ [][NextBurst]_vars

\* requests of one client in flight together through the strict limiter,
\* healthy store: enough of them for a slow call to be overtaken by calls that
\* use the budget up and by one that is denied
RaceCalls == StrictMax + 3

InitRateRace == InitWith({"client"})

NextRateRace ==
    \/ \E p \in Procs : rl_begin(p, {"strict"}, {"10.0.0.1"}, RaceCalls, FALSE)
    \/ \E p \in Procs : rl_get(p, Healthy)
    \/ \E p \in Procs : rl_set(p, Healthy)
    \/ Tick

SpecRateRace == InitRateRace /\ [][NextRateRace]_vars

\* requests that read, create, update and delete tasks, in flight together,
\* healthy store
InitTaskRace == InitWith({"client"})

NextTaskRace ==
    \/ \E p \in Procs : rt_call(p)
    \/ \E p \in Procs : rt_get(p, Healthy)
    \/ \E p \in Procs : rt_db(p)
    \/ \E p \in Procs : rt_set(p, Healthy)
    \/ \E p \in Procs : ct_call(p)
    \/ \E p \in Procs : ut_call(p)
    \/ \E p \in Procs : dt_call(p)
    \/ \E p \in Procs : ut_update(p)
    \/ \E p \in Procs : dt_remove(p)
    \/ \E p \in Procs : inv_delete(p, Healthy)
    \/ \E p \in Procs : inv_clear(p, Healthy)
    \/ Tick

SpecTaskRace == InitTaskRace /\ [][NextTaskRace]_vars

(***************************************************************************)
(* Claims                                                                   *)
(***************************************************************************)
Min(a, b) == IF a < b THEN a ELSE b
StoredCount(k) == current_count_of(json_loads(data[k].doc))
WindowCurrent(k, t) == \E i \in Identifiers : k = rate_key(i, window_start_at(t, "strict"))

\* C2: is_allowed calls on one identifier that come one after another through one
\* limiter, all inside one window, on a healthy store: the k-th call is allowed
\* exactly when k <= max_requests, so max_requests of them are allowed and every
\* later one is denied.
C2_KthCallAllowedIffWithinMax ==
    /\ \A k \in RateKeys :
         (stat[k].clean /\ stat[k].calls > 0) =>
             stat[k].allowed = Min(stat[k].calls, max_requests(stat[k].lim))
    /\ (last.op = "guard" /\ stat[last.key].clean) =>
             (last.allowed <=> stat[last.key].calls <= max_requests(last.lim))

\* the (max_requests + 1)-th call of a window has just been denied, after
\* max_requests allowed ones, through the moderate limiter
C2_Witness ==
    /\ last.op = "guard"
    /\ last.lim = "moderate"
    /\ ~last.allowed
    /\ stat[last.key].clean
    /\ stat[last.key].calls = ModerateMax + 1
    /\ stat[last.key].allowed = ModerateMax

\* C9 as claimed: between two successive states in which a counter's window is
\* current, the stored counter is still there and has not decreased, whatever
\* the interleaving of the is_allowed calls.
C9_CounterNeverDecreases ==
    [][\A k \in RateKeys :
         (k \in DOMAIN data /\ WindowCurrent(k, now) /\ WindowCurrent(k, now')) =>
             (k \in DOMAIN data' /\
              current_count_of(json_loads(data'[k].doc)) >= StoredCount(k))]_vars

\* C10: the get-then-set of is_allowed is not atomic, and the race only ever
\* loses increments: the stored count of a key never exceeds the number of
\* checks allowed on it, and (witness) it can fall short of it while more than
\* max_requests checks were allowed in the window.
C10_StoredCountNeverAboveAllowed ==
    \A k \in RateKeys : k \in DOMAIN data => StoredCount(k) <= stat[k].allowed

\* two interleaved checks wrote the same incremented value: more checks allowed
\* in the current window than max_requests, and than the stored count records
C10_Witness ==
    \E k \in RateKeys :
        /\ k \in DOMAIN data
        /\ WindowCurrent(k, now)
        /\ stat[k].lim = "strict"
        /\ stat[k].allowed > max_requests("strict")
        /\ StoredCount(k) < stat[k].allowed

StoredForm(v) == json_loads(json_dumps(v))
StoreOps == {"connect", "disconnect", "get", "set", "delete", "clear_pattern"}

\* a memoized call whose predecessor, the call completed just before it, ran the
\* wrapped operation with the same arguments and stored the result, and whose
\* get came before that copy expired, on a healthy store
SecondCall ==
    /\ last.op = "memo"
    /\ last.prev.ok
    /\ last.tget < last.prev.exp
    /\ last.healthy

\* C4 as claimed: such a second call returns the stored result and does not run
\* the wrapped operation, whatever the result value was.
C4_SecondCallHitsForEveryResult ==
    SecondCall => (last.executed = 0 /\ last.val = StoredForm(last.prev.val))

\* C4, amended: the same, for every stored result other than None.
C4_SecondCallHitsForNonNone ==
    (SecondCall /\ last.prev.val # PyNone) =>
        (last.executed = 0 /\ last.val = StoredForm(last.prev.val))

\* a second call has hit on a stored result of 0
C4_Witness ==
    /\ SecondCall
    /\ last.prev.val = PyInt(0)
    /\ last.executed = 0
    /\ last.val = PyInt(0)

\* C5 as claimed: a get that follows a successful set(key, v, ttl) of the same key
\* before expiry, nothing in between, returns v or absent.
C5_GetReturnsWhatSetStored ==
    (last.op = "get" /\ last.prev.ok /\ last.tget < last.prev.exp) =>
        last.val \in {last.prev.val, PyNone}

\* C6 as claimed: no store operation raises; on failure or in disabled mode get
\* returns absent, set and delete return false, clear_pattern returns 0.
C6_StoreOperationsNeverRaise ==
    last.op \in StoreOps =>
        /\ last.raised = ""
        /\ (last.failing /\ last.op = "get") => last.val = PyNone
        /\ (last.failing /\ last.op \in {"set", "delete", "clear_pattern"}) => last.ok = 0

\* C7: a memoized call none of whose store commands was answered (store disabled
\* or failing) runs the wrapped operation exactly once and returns its result;
\* an is_allowed call none of whose store commands was answered returns allow;
\* neither raises.
C7_DegradesToMissAndAllow ==
    last.failing =>
        /\ last.op = "memo" =>
             (last.executed = 1 /\ last.val = last.arg /\ last.raised = "")
        /\ last.op = "guard" => (last.allowed /\ last.raised = "")

\* a memoized call on a failing store has just run the wrapped operation, after
\* failing checks had allowed more than max_requests requests in one window
C7_Witness ==
    /\ last.op = "memo"
    /\ last.failing
    /\ last.executed = 1
    /\ \E k \in RateKeys : stat[k].lim = "strict" /\ stat[k].allowed > StrictMax

\* C8 as claimed: delete returns false for an absent key or a disabled store, and
\* true only when an existing key was removed.
C8_DeleteReportsRemoval ==
    last.op = "delete" =>
        /\ last.ok = 1 => last.existed
        /\ (~last.existed \/ redis_client = "None") => last.ok = 0

OwnerKeys(user) ==
    {wrapper_key(p, "get_tasks_by_owner_cached", user, pr) : p \in Procs, pr \in Priorities}

\* C1 as claimed: when create_task, update_task or delete_task of a user has
\* completed on a healthy store, no result of get_tasks_by_owner_cached for that
\* user is left in the store.
C1_MutationEvictsOwnersLists ==
    (last.op \in Mutations /\ last.raised = "" /\ last.healthy /\ AllIdleNow) =>
        \A k \in OwnerKeys(last.user) : k \notin DOMAIN data

\* an argument that is not a receiver / session object
Included(v) == v.t \notin {"session", "object"}
KwNames(kwargs) == [j \in 1..Len(kwargs) |-> kwargs[j].name]

\* C3 as claimed: two calls of one operation under one prefix, with the same
\* positional arity and the same named arguments, that differ in the value of
\* an included argument, derive different keys.
C3_DifferentValuesDifferentKeys ==
    (/\ kg.done
     /\ Len(kg.args1) = Len(kg.args2)
     /\ KwNames(kg.kwargs1) = KwNames(kg.kwargs2)
     /\ \/ \E j \in 1..Len(kg.args1) :
             Included(kg.args1[j]) /\ Included(kg.args2[j]) /\ kg.args1[j] # kg.args2[j]
        \/ \E j \in 1..Len(kg.kwargs1) :
             /\ Included(kg.kwargs1[j].value) /\ Included(kg.kwargs2[j].value)
             /\ kg.kwargs1[j].value # kg.kwargs2[j].value)
    => kg.key1 # kg.key2

\* the counters of two adjacent windows of one identifier
AdjacentKeys ==
    { <<rate_key(i, w), rate_key(i, w + WindowSeconds)>> :
        i \in Identifiers, w \in {v \in WindowStarts : v + WindowSeconds \in WindowStarts} }

ThroughOne(pair, lim) == stat[pair[1]].lim \in {"", lim} /\ stat[pair[2]].lim \in {"", lim}

\* C11 as claimed: whenever the is_allowed calls on an identifier came one after
\* another through one limiter on a healthy store, the calls allowed on the
\* counters of two adjacent windows number at most 2 x max_requests.
C11_AdjacentWindowsAdmitAtMostTwiceMax ==
    \A pair \in AdjacentKeys, lim \in Limiters :
        (ThroughOne(pair, lim) /\ stat[pair[1]].seq /\ stat[pair[2]].seq) =>
            stat[pair[1]].allowed + stat[pair[2]].allowed <= 2 * max_requests(lim)

\* C11, amended: the same, when each call also completed inside the window in
\* which it read the clock (a call that reads the clock in one window and
\* reaches the store after the counter's TTL has run out starts that window's
\* count again).
C11_AdjacentWindowsOfCallsInsideTheirWindow ==
    \A pair \in AdjacentKeys, lim \in Limiters :
        (ThroughOne(pair, lim) /\ stat[pair[1]].clean /\ stat[pair[2]].clean) =>
            stat[pair[1]].allowed + stat[pair[2]].allowed <= 2 * max_requests(lim)

\* a burst across the boundary: max_requests allowed in each of the two windows,
\* and a further call denied in the second
C11_Witness ==
    \E pair \in AdjacentKeys :
        /\ stat[pair[1]].clean /\ stat[pair[2]].clean
        /\ stat[pair[1]].lim = "strict" /\ stat[pair[2]].lim = "strict"
        /\ stat[pair[1]].allowed = StrictMax
        /\ stat[pair[2]].allowed = StrictMax
        /\ stat[pair[2]].calls > StrictMax

\* the call completed last read the clock a window length or more after a call
\* on the same identifier that was denied; one call at a time, healthy store
AfterDeniedAndWindow ==
    /\ last.op = "guard"
    /\ last.healthy
    /\ ~last.overlap
    /\ \E k \in RateKeys :
          /\ k[2] = last.key[2]
          /\ stat[k].denied # NoTime
          /\ last.tget >= stat[k].denied + window_seconds(last.lim)

\* C12 as claimed: such a call is allowed.
C12_AllowedAgainAfterWindow == AfterDeniedAndWindow => last.allowed

\* C12, amended: such a call is denied only if max_requests calls have already
\* been allowed on the counter of its own window.
C12_AllowedAgainUnlessNewWindowExhausted ==
    (AfterDeniedAndWindow /\ ~last.allowed) =>
        stat[last.key].allowed >= max_requests(last.lim)

\* a call has been allowed a window length after a denied one
C12_Witness ==
    /\ AfterDeniedAndWindow
    /\ last.allowed
    /\ stat[last.key].allowed = 1

\* the stored value of key k differs between the two states of a step
Rewritten(k) ==
    \/ (k \in DOMAIN data) # (k \in DOMAIN data')
    \/ k \in DOMAIN data /\ k \in DOMAIN data' /\ data'[k] # data[k]

\* C13: is_allowed(a) touches only the counter of a.  Outside the expiry of
\* keys, a counter changes only in the set of a call on the identifier the
\* counter is named after; so, with one call at a time, the counter of an
\* identifier's window holds exactly the number of that identifier's allowed
\* checks, and the outcome of its k-th check is the same whatever checks on
\* other identifiers occurred in the window.
C13_ChecksTouchOnlyOwnCounter ==
    /\ [](\A k \in RateKeys :
            (k \in DOMAIN data /\ stat[k].clean) => StoredCount(k) = stat[k].allowed)
    /\ [][now' = now =>
            \A k \in DOMAIN data \cup DOMAIN data' :
                Rewritten(k) =>
                    \E p \in Procs :
                        /\ pc[p] = "rl_set" /\ pc'[p] = "idle"
                        /\ k = fr[p].key
                        /\ k[2] = identifier_of(fr[p].request)]_vars

\* a check on "unknown" has been allowed in a window in which the checks on
\* 10.0.0.1, through the same limiter, had used up that identifier's budget
C13_Witness ==
    /\ last.op = "guard"
    /\ last.allowed
    /\ last.request = "noclient"
    /\ stat[last.key].clean
    /\ \E k \in RateKeys :
          /\ k[2] = "10.0.0.1" /\ k[3] = last.key[3]
          /\ stat[k].clean
          /\ stat[k].lim = last.lim
          /\ stat[k].allowed = max_requests(last.lim)
          /\ stat[k].calls > stat[k].allowed

\* C14: a call that reads a count of max_requests or more returns deny, and the
\* step in which a call returns deny leaves the whole keyspace as it was: the
\* counter is not incremented, no other key is touched, and the call makes no
\* later store command.
C14_DenyWritesNothing ==
    [][\A p \in Procs :
         (pc[p] = "rl_get" /\ pc'[p] # "rl_get") =>
            /\ current_count_of(CM_get(fr[p].key, TRUE)) >= max_requests(fr[p].lim) =>
                  (pc'[p] = "idle" /\ last'.op = "guard" /\ ~last'.allowed)
            /\ pc'[p] = "idle" =>
                  (data' = data /\ ~last'.allowed /\ ~last'.wrote)]_vars

\* a call has just been denied on a counter that stands at max_requests
C14_Witness ==
    /\ last.op = "guard"
    /\ ~last.allowed
    /\ ~last.wrote
    /\ last.key \in DOMAIN data
    /\ StoredCount(last.key) = max_requests(last.lim)

\* C15: the guard raises HTTP 429 exactly when is_allowed returned deny and
\* returns normally otherwise; it checks the client host, and the one string
\* "unknown" for every request without a client.
C15_GuardRaises429IffDenied ==
    last.op = "guard" =>
        /\ last.raised = (IF last.allowed THEN "" ELSE "429")
        /\ last.key[2] = (IF last.request = "noclient" THEN "unknown" ELSE last.request)
        /\ last.key[1] = "rate_limit"

\* a request without a client has been refused with 429 on the counter of "unknown"
C15_Witness ==
    /\ last.op = "guard"
    /\ last.request = "noclient"
    /\ last.key[2] = "unknown"
    /\ ~last.allowed
    /\ last.raised = "429"

\* the excluded context of a call: the receiver (the first positional
\* argument, an object) and every session object, whichever they are
Context(args, j) == args[j].t = "session" \/ (j = 1 /\ args[j].t = "object")
KwPairs(kwargs) ==
    { <<kwargs[j].name, IF kwargs[j].value.t = "session" THEN PySession(0)
                        ELSE kwargs[j].value>> : j \in 1..Len(kwargs) }

\* two calls that differ at most in the order of their named arguments and in
\* which receiver / session object they pass
SameCallUpToContext ==
    /\ kg.done
    /\ Len(kg.args1) = Len(kg.args2)
    /\ \A j \in 1..Len(kg.args1) :
          \/ kg.args1[j] = kg.args2[j]
          \/ Context(kg.args1, j) /\ Context(kg.args2, j)
    /\ KwPairs(kg.kwargs1) = KwPairs(kg.kwargs2)

\* C16: such calls, under one prefix and operation name, derive the same key.
C16_SameKeyUpToOrderAndContext == SameCallUpToContext => kg.key1 = kg.key2

\* named arguments in different order, different receivers, different sessions
C16_Witness ==
    /\ SameCallUpToContext
    /\ kg.args1 = <<crud_task, PySession(1)>>
    /\ kg.args2 = <<PyObject(2), PySession(2)>>
    /\ kg.kwargs1 = <<Kw("a", PyInt(1)), Kw("b", PyInt(2))>>
    /\ kg.kwargs2 = <<Kw("b", PyInt(2)), Kw("a", PyInt(1))>>
    /\ kg.key1 = kg.key2

\* the keys of the keyspace ks that the glob matches
MatchedIn(ks, glob) == {k \in DOMAIN ks : GlobMatch(glob, k)}

\* C17: when clear_pattern(glob) has returned (and no key has expired since),
\* on a connected store whose commands are answered the keyspace holds exactly
\* the keys that did not match the glob when it was called, each with its value
\* and expiry, and the call returned the number of keys that matched; on a
\* disabled or failing store it removed nothing and returned 0.
C17_ClearPatternDeletesExactlyTheMatches ==
    (last.op = "clear_pattern" /\ last.tget = now) =>
        IF last.healthy
        THEN /\ DOMAIN data = DOMAIN last.before \ MatchedIn(last.before, last.key)
             /\ \A k \in DOMAIN data : data[k] = last.before[k]
             /\ last.ok = Cardinality(MatchedIn(last.before, last.key))
        ELSE data = last.before /\ last.ok = 0

\* clear_pattern("tasks_by_owner:*:1:*") has removed the one key that matched
\* and left two others in place
C17_Witness ==
    /\ last.op = "clear_pattern"
    /\ last.tget = now
    /\ last.healthy
    /\ last.key = <<"tasks_by_owner", "*", "1", "*">>
    /\ last.ok = 1
    /\ Cardinality(DOMAIN last.before) = 3
    /\ DOMAIN data = { <<"health_check">>, <<"task", "1", "1">> }

\* an operation of the store other than connect, completed on a disabled store
DisabledOps == {"get", "set", "delete", "clear_pattern", "disconnect"}

\* C18: a connect() that failed leaves the store disabled; a disabled store
\* stays disabled through every get, set, delete, clear_pattern and disconnect
\* (none of which reaches the backend or changes the keyspace) and through
\* every further failed connect, and is enabled again only by a connect that
\* succeeded, after which an answered command reaches the backend.
C18_DisabledUntilConnectSucceeds ==
    /\ [](last.conn = "failed" => redis_client = "None")
    /\ []((last.op = "connect" /\ ~last.healthy) => redis_client = "None")
    /\ []((last.op = "connect" /\ last.healthy) => redis_client = "client")
    /\ [][redis_client = "None" =>
            /\ redis_client' # "None" => (last'.op = "connect" /\ last'.healthy)
            /\ (redis_client' = "None" /\ last' # last) =>
                  (/\ last'.op \in DisabledOps \cup {"connect"}
                   /\ last'.failing
                   /\ last'.raised = ""
                   /\ data' = data)]_vars
    /\ [][(redis_client = "client" /\ last'.op = "set" /\ last' # last /\ last'.healthy
            /\ ~DumpsRaises(last'.arg)) =>
               (last'.key \in DOMAIN data' /\ last'.ok = 1)]_vars

\* a set has reached the backend after a connect() had failed and a later
\* connect() had succeeded
C18_Witness ==
    /\ last.op = "set"
    /\ last.conn = "again"
    /\ last.healthy
    /\ last.ok = 1
    /\ last.key \in DOMAIN data

\* C19: a memoized call whose get finds no entry goes on to run the wrapped
\* operation, whatever other calls on the same key are in flight, and the call
\* that has run it stores its own result under the key and returns that result:
\* calls that miss together each execute and each write.
C19_ConcurrentMissesEachExecuteAndWrite ==
    [][\A p \in Procs :
         /\ (pc[p] = "mz_get" /\ pc'[p] # "mz_get" /\ fr[p].key \notin DOMAIN data) =>
                pc'[p] = "mz_exec"
         /\ (pc[p] = "mz_exec" /\ pc'[p] # "mz_exec") =>
                (pc'[p] = "mz_set" /\ fr'[p].val \in FreshResults)
         /\ (pc[p] = "mz_set" /\ pc'[p] # "mz_set") =>
                /\ fr[p].key \in DOMAIN data'
                /\ data'[fr[p].key].doc = json_dumps(fr[p].val)
                /\ last'.op = "memo" /\ last'.executed = 1 /\ last'.val = fr[p].val]_vars

\* two calls on one key missed together: one has run the wrapped operation,
\* stored its result and returned it, the other has run it as well, got a
\* different result, and is about to store that
C19_Witness ==
    /\ last.op = "memo"
    /\ last.overlap
    /\ last.executed = 1
    /\ last.key \in DOMAIN data
    /\ data[last.key].doc = json_dumps(last.val)
    /\ \E q \in Procs :
          /\ pc[q] = "mz_set"
          /\ fr[q].key = last.key
          /\ fr[q].val # last.val

\* C20 as claimed: the strict and the moderate guard count separately, so a
\* request through the strict guard (one at a time, healthy store) is denied
\* only when max_requests requests through the strict guard were allowed on its
\* identifier in its window.
C20_StrictDeniedOnlyAfterStrictBudgetUsed ==
    (/\ last.op = "guard"
     /\ last.lim = "strict"
     /\ ~last.allowed
     /\ last.healthy
     /\ ~last.overlap) =>
        stat[last.key].strict >= max_requests("strict")

\* C23: with one limiter the only writer of its keys, every counter in the
\* store holds a value from 1 to max_requests, whatever the interleaving of
\* the is_allowed calls.
C23_StoredCountWithinOneAndMax ==
    \A k \in DOMAIN data :
        /\ json_loads(data[k].doc).t = "int"
        /\ StoredCount(k) >= 1
        /\ StoredCount(k) <= max_requests("strict")

\* interleaved checks have let more than max_requests requests through in the
\* current window, and the counter stands at max_requests
C23_Witness ==
    \E k \in RateKeys :
        /\ k \in DOMAIN data
        /\ WindowCurrent(k, now)
        /\ ~stat[k].seq
        /\ stat[k].allowed > max_requests("strict")
        /\ StoredCount(k) = max_requests("strict")

\* C21 as claimed: a call that started after a call on the same identifier and
\* window had been denied, and that completes while that window is current, is
\* denied as well, whatever the interleaving of the calls.
C21_DeniedStaysDeniedInWindow ==
    (/\ last.op = "guard"
     /\ last.after
     /\ WindowCurrent(last.key, now)) =>
        ~last.allowed

\* update_task or delete_task of task i has written the table and has not yet
\* completed its cache invalidation
Invalidating(i) ==
    \E q \in Procs :
        /\ fr[q].op \in {"update_task", "delete_task"}
        /\ fr[q].id = i
        /\ pc[q] \in {"inv_delete", "inv_clear"}

\* C22 as claimed: when read_task returns a task from the cache while no
\* update_task or delete_task of that task is between its write and the end of
\* its invalidation, the task still exists and the copy returned is the task
\* as the table holds it: never the copy from before a mutation that has
\* completed, whatever read_task requests were in flight during the mutation.
C22_NoStaleTaskAfterInvalidation ==
    [][\A p \in Procs :
         (/\ pc[p] = "rt_get"
          /\ pc'[p] = "idle"
          /\ ~Invalidating(fr[p].id)) =>
            /\ db[fr[p].id].state = "live"
            /\ last'.val = StoredForm(read_task_dict(fr[p].id))]_vars

====
